---- MODULE Spec2Model ----
(***************************************************************************)
(* Location registry and resolver of the glyph dispenser bot               *)
(* (location_lookup.py, ggf_bot_utils.py, ggf_glyph_dispener.py).          *)
(*                                                                         *)
(* Text is a sequence of one-character strings, so that lower-casing,      *)
(* substring tests, splitting and the similarity scores are computed and   *)
(* not assumed.                                                            *)
(***************************************************************************)
EXTENDS Integers, Sequences, FiniteSets, TLC

(***************************************************************************)
(* Text primitives (Python str).                                           *)
(***************************************************************************)
Digits == <<"0", "1", "2", "3", "4", "5", "6", "7", "8", "9">>

DigitSet == {Digits[i] : i \in 1..Len(Digits)}

UpperSet == {"A", "B", "C", "D", "E", "F", "G", "X"}

LowerSet == {"a", "b", "c", "d", "e", "f", "g", "h", "i", "l", "m",
             "n", "o", "p", "r", "s", "t", "u", "v", "x", "y"}

\* str.lower() on one character
LowerChar(c) ==
    CASE c = "A" -> "a"
      [] c = "B" -> "b"
      [] c = "C" -> "c"
      [] c = "D" -> "d"
      [] c = "E" -> "e"
      [] c = "F" -> "f"
      [] c = "G" -> "g"
      [] c = "X" -> "x"
      [] OTHER -> c

\* str.upper() on one character (only hexadecimal letters occur in addresses)
UpperChar(c) ==
    CASE c = "a" -> "A"
      [] c = "b" -> "B"
      [] c = "c" -> "C"
      [] c = "d" -> "D"
      [] c = "e" -> "E"
      [] c = "f" -> "F"
      [] OTHER -> c

lower(s) == [i \in 1..Len(s) |-> LowerChar(s[i])]

upper(s) == [i \in 1..Len(s) |-> UpperChar(s[i])]

IsSpace(c) == c = " "

\* \w of the re module: letters, digits (no underscore occurs in the model)
IsWordChar(c) == c \in DigitSet \cup UpperSet \cup LowerSet

\* a[lo..hi-1] with 1-based lo and exclusive hi
Slice(s, lo, hi) == [i \in 1..(hi - lo) |-> s[lo + i - 1]]

\* the Python test  s in t  on strings
IsSubstring(s, t) ==
    \E k \in 0..(Len(t) - Len(s)) : \A i \in 1..Len(s) : t[k + i] = s[i]

\* str.strip()
RECURSIVE lstrip(_)
lstrip(s) == IF s # <<>> /\ IsSpace(Head(s)) THEN lstrip(Tail(s)) ELSE s

RECURSIVE rstrip(_)
rstrip(s) ==
    IF s # <<>> /\ IsSpace(s[Len(s)]) THEN rstrip(SubSeq(s, 1, Len(s) - 1)) ELSE s

strip(s) == rstrip(lstrip(s))

\* str.split() without arguments: the maximal runs of non-space characters
RECURSIVE SplitFrom(_, _, _)
SplitFrom(s, i, cur) ==
    IF i > Len(s)
    THEN IF cur = <<>> THEN <<>> ELSE <<cur>>
    ELSE IF IsSpace(s[i])
         THEN (IF cur = <<>> THEN <<>> ELSE <<cur>>) \o SplitFrom(s, i + 1, <<>>)
         ELSE SplitFrom(s, i + 1, Append(cur, s[i]))

split(s) == SplitFrom(s, 1, <<>>)

(***************************************************************************)
(* The similarity scores of the fuzzywuzzy package, as its pure-Python     *)
(* build computes them with difflib.SequenceMatcher (no junk; the autojunk *)
(* heuristic needs 200 characters).                                        *)
(***************************************************************************)
\* length of the common run that starts at a[i] and b[j]
RECURSIVE RunLen(_, _, _, _, _, _)
RunLen(a, b, i, j, ahi, bhi) ==
    IF i < ahi /\ j < bhi /\ a[i] = b[j]
    THEN 1 + RunLen(a, b, i + 1, j + 1, ahi, bhi)
    ELSE 0

\* the choice among the candidate blocks of find_longest_match; L maps every
\* pair of start positions to the length of the common run there
LongestOf(alo, blo, L) ==
    IF DOMAIN L = {} THEN <<alo, blo, 0>>
    ELSE LET first == CHOOSE p \in DOMAIN L :
                          \A q \in DOMAIN L :
                              \/ L[q] < L[p]
                              \/ /\ L[q] = L[p]
                                 /\ (p[1] < q[1] \/ (p[1] = q[1] /\ p[2] <= q[2]))
         IN IF L[first] = 0 THEN <<alo, blo, 0>>
            ELSE <<first[1], first[2], L[first]>>

\* SequenceMatcher.find_longest_match: the longest common block in
\* a[alo..ahi-1], b[blo..bhi-1]; of the longest ones the earliest in a, and of
\* those the earliest in b
find_longest_match(a, b, alo, ahi, blo, bhi) ==
    LongestOf(alo, blo,
              [p \in (alo..(ahi - 1)) \X (blo..(bhi - 1)) |->
                   RunLen(a, b, p[1], p[2], ahi, bhi)])

\* the recursion of SequenceMatcher.get_matching_blocks: the blocks left of
\* the longest match m, then m, then the blocks right of it
RECURSIVE MatchingBlocks(_, _, _, _, _, _)
RECURSIVE AroundMatch(_, _, _, _, _, _, _)
AroundMatch(a, b, alo, ahi, blo, bhi, m) ==
    IF m[3] = 0
    THEN <<>>
    ELSE (IF alo < m[1] /\ blo < m[2]
          THEN MatchingBlocks(a, b, alo, m[1], blo, m[2]) ELSE <<>>)
         \o <<m>>
         \o (IF m[1] + m[3] < ahi /\ m[2] + m[3] < bhi
             THEN MatchingBlocks(a, b, m[1] + m[3], ahi, m[2] + m[3], bhi) ELSE <<>>)

MatchingBlocks(a, b, alo, ahi, blo, bhi) ==
    AroundMatch(a, b, alo, ahi, blo, bhi, find_longest_match(a, b, alo, ahi, blo, bhi))

\* SequenceMatcher.get_matching_blocks: the blocks in order, then the
\* sentinel (len(a), len(b), 0). Adjacent blocks are left unmerged: merging
\* changes neither the sum of the sizes nor the offsets b-a of the blocks.
get_matching_blocks(a, b) ==
    MatchingBlocks(a, b, 1, Len(a) + 1, 1, Len(b) + 1)
        \o << <<Len(a) + 1, Len(b) + 1, 0>> >>

RECURSIVE SumSizes(_)
SumSizes(blocks) ==
    IF blocks = <<>> THEN 0 ELSE Head(blocks)[3] + SumSizes(Tail(blocks))

\* SequenceMatcher.ratio as the fraction <<2*M, T>>
MatcherRatio(a, b) == <<2 * SumSizes(get_matching_blocks(a, b)), Len(a) + Len(b)>>

\* utils.intr(100 * num/den): int(round(.)), halves go to the even integer
intr(num, den) ==
    LET q == (100 * num) \div den
        r == (100 * num) % den
    IN IF 2 * r > den THEN q + 1
       ELSE IF 2 * r < den THEN q
       ELSE IF q % 2 = 0 THEN q ELSE q + 1

Rounded(f) == intr(f[1], f[2])

\* fuzz.ratio with its decorators: equal texts score 100, an empty text 0
ratio(s1, s2) ==
    IF s1 = s2 THEN 100
    ELSE IF Len(s1) = 0 \/ Len(s2) = 0 THEN 0
    ELSE Rounded(MatcherRatio(s1, s2))

\* partial_ratio, the loop over the blocks: the ratio of the shorter text
\* against the window of the longer one that each block points at
WindowScores(shorter, longer, blocks) ==
    LET window(blk) ==
            LET long_start == IF blk[2] - blk[1] > 0 THEN blk[2] - blk[1] ELSE 0
                long_end == IF long_start + Len(shorter) < Len(longer)
                            THEN long_start + Len(shorter) ELSE Len(longer)
            IN Slice(longer, long_start + 1, long_end + 1)
    IN {MatcherRatio(shorter, window(blocks[n])) : n \in 1..Len(blocks)}

\* partial_ratio, the result: 100 at a ratio above .995, else the best one
BestScore(scores) ==
    IF \E f \in scores : 1000 * f[1] > 995 * f[2]
    THEN 100
    ELSE Rounded(CHOOSE f \in scores : \A g \in scores : g[1] * f[2] <= f[1] * g[2])

PartialOf(shorter, longer) ==
    BestScore(WindowScores(shorter, longer, get_matching_blocks(shorter, longer)))

\* fuzz.partial_ratio with its decorators
partial_ratio(s1, s2) ==
    IF s1 = s2 THEN 100
    ELSE IF Len(s1) = 0 \/ Len(s2) = 0 THEN 0
    ELSE IF Len(s1) <= Len(s2) THEN PartialOf(s1, s2)
    ELSE PartialOf(s2, s1)

\* utils.full_process: non-word characters become spaces, lower-case, strip
full_process(s) ==
    strip(lower([i \in 1..Len(s) |-> IF IsWordChar(s[i]) THEN s[i] ELSE " "]))

\* max(.., key=score) of extractOne: the first choice of the highest score
FirstBest(choices, score) ==
    LET best == CHOOSE n \in 1..Len(choices) :
                    /\ \A m \in 1..Len(choices) : score[m] <= score[n]
                    /\ \A m \in 1..(n - 1) : score[m] < score[n]
    IN <<choices[best], score[best]>>

\* process.extractOne(query, choices, scorer=fuzz.partial_ratio):
\* <<choice, score>>, or <<>> (None) for no choices
extractOne(query, choices) ==
    IF Len(choices) = 0 THEN <<>>
    ELSE FirstBest(choices,
                   [n \in 1..Len(choices) |->
                        partial_ratio(full_process(query), full_process(choices[n]))])

(***************************************************************************)
(* Galaxy designators and addresses (ggf_bot_utils.py, the bot module).    *)
(***************************************************************************)
Threshold == 80

DigitValue(c) == CHOOSE v \in 0..9 : Digits[v + 1] = c

\* int() on a run of decimal digits
RECURSIVE DigitsToInt(_)
DigitsToInt(s) ==
    IF s = <<>> THEN 0
    ELSE 10 * DigitsToInt(SubSeq(s, 1, Len(s) - 1)) + DigitValue(s[Len(s)])

\* str() on a natural number
RECURSIVE IntToStr(_)
IntToStr(n) ==
    IF n < 10 THEN <<Digits[n + 1]>>
    ELSE Append(IntToStr(n \div 10), Digits[(n % 10) + 1])

\* str.isdigit()
isdigit(s) == s # <<>> /\ \A i \in 1..Len(s) : s[i] \in DigitSet

\* the length of the run of spaces (\s+) that starts at position i
RECURSIVE SpaceRun(_, _)
SpaceRun(s, i) == IF i <= Len(s) /\ IsSpace(s[i]) THEN 1 + SpaceRun(s, i + 1) ELSE 0

\* the length of the run of digits (\d+) that starts at position i
RECURSIVE DigitRun(_, _)
DigitRun(s, i) == IF i <= Len(s) /\ s[i] \in DigitSet THEN 1 + DigitRun(s, i + 1) ELSE 0

GalaxyWord == <<"g", "a", "l", "a", "x", "y">>

\* re.search(r'galaxy\s+(\d+)', text): the digits of the leftmost match,
\* or <<>> when the pattern occurs nowhere
GalaxyPattern(text) ==
    LET at(p) ==
            /\ p + Len(GalaxyWord) - 1 <= Len(text)
            /\ Slice(text, p, p + Len(GalaxyWord)) = GalaxyWord
            /\ SpaceRun(text, p + Len(GalaxyWord)) >= 1
            /\ DigitRun(text, p + Len(GalaxyWord)
                                 + SpaceRun(text, p + Len(GalaxyWord))) >= 1
        hits == {p \in 1..Len(text) : at(p)}
    IN IF hits = {} THEN <<>>
       ELSE LET p == CHOOSE q \in hits : \A r \in hits : q <= r
                d == p + Len(GalaxyWord) + SpaceRun(text, p + Len(GalaxyWord))
            IN Slice(text, d, d + DigitRun(text, d))

\* the table of check_galaxy_mention, in its order
known_galaxies ==
    << [name |-> <<"e", "u", "c", "l", "i", "d">>, id |-> 1],
       [name |-> <<"h", "i", "l", "b", "e", "r", "t", " ", "d", "i", "m", "e", "n", "s", "i", "o", "n">>, id |-> 2],
       [name |-> <<"c", "a", "l", "y", "p", "s", "o">>, id |-> 3],
       [name |-> <<"h", "e", "s", "p", "e", "r", "i", "u", "s", " ", "d", "i", "m", "e", "n", "s", "i", "o", "n">>, id |-> 4],
       [name |-> <<"h", "y", "a", "d", "e", "s">>, id |-> 5],
       [name |-> <<"i", "'", "v", "e", " ", "l", "o", "s", "t", " ", "c", "o", "u", "n", "t">>, id |-> 256] >>

\* check_galaxy_mention without the range test of line 58
check_galaxy_mention_norange(text) ==
    LET text_lower == lower(text)
        m == GalaxyPattern(text_lower)
        named == {n \in 1..Len(known_galaxies) :
                      IsSubstring(known_galaxies[n].name, text_lower)}
    IN IF m # <<>>
       THEN [is_galaxy |-> TRUE, galaxy_id |-> DigitsToInt(m)]
       ELSE IF named # {}
       THEN [is_galaxy |-> TRUE,
             galaxy_id |-> known_galaxies[CHOOSE n \in named :
                                              \A k \in named : n <= k].id]
       ELSE [is_galaxy |-> FALSE, galaxy_id |-> 0]

\* check_galaxy_mention: is_galaxy and galaxy_id of the returned tuple (the
\* display name is not used by any caller's decision). galaxy_id 0 is None.
check_galaxy_mention(text) ==
    LET text_lower == lower(text)
        m == GalaxyPattern(text_lower)
        gal_id == DigitsToInt(m)
        named == {n \in 1..Len(known_galaxies) :
                      IsSubstring(known_galaxies[n].name, text_lower)}
    IN IF m # <<>> /\ 1 <= gal_id /\ gal_id <= 256
       THEN [is_galaxy |-> TRUE, galaxy_id |-> gal_id]
       ELSE IF named # {}
       THEN [is_galaxy |-> TRUE,
             galaxy_id |-> known_galaxies[CHOOSE n \in named :
                                              \A k \in named : n <= k].id]
       ELSE [is_galaxy |-> FALSE, galaxy_id |-> 0]

HexSet == DigitSet \cup {"A", "B", "C", "D", "E", "F", "a", "b", "c", "d", "e", "f"}

\* validate_address: 12 hexadecimal digits, the first one in 1..6
validate_address(address) ==
    /\ Len(address) = 12
    /\ \A i \in 1..Len(address) : address[i] \in HexSet
    /\ address[1] \in {"1", "2", "3", "4", "5", "6"}

(***************************************************************************)
(* The store: the locations file, its .tmp and its .bak (location_lookup). *)
(* A file is absent, holds a complete JSON document, or holds the prefix   *)
(* of one (which json.load rejects). A locations dict is the sequence of   *)
(* its entries in insertion order, which json.dump and json.load keep.     *)
(***************************************************************************)
Absent == [kind |-> "absent", data |-> <<>>]

Partial == [kind |-> "partial", data |-> <<>>]

Json(locations) == [kind |-> "json", data |-> locations]

exists(file) == file.kind # "absent"

\* load_locations: {} for a missing or an unparsable file
load_locations(f) == IF f.target.kind = "json" THEN f.target.data ELSE <<>>

\* save_locations, line 36: open(temp_file, 'w') creates or truncates it
save_open_temp(f) == [f EXCEPT !.tmp = Partial]

\* save_locations, line 37: json.dump and the close of the with block
save_dump_temp(f, locations) == [f EXCEPT !.tmp = Json(locations)]

\* the target removed instead of moved
save_move_backup_unlink(f) ==
    IF exists(f.target) THEN [f EXCEPT !.target = Absent] ELSE f

\* save_locations, lines 39-40: shutil.move(filename, backup_file)
save_move_backup(f) ==
    IF exists(f.target) THEN [f EXCEPT !.bak = f.target, !.target = Absent] ELSE f

\* save_locations, line 43: os.rename(temp_file, filename)
save_rename_temp(f) == [f EXCEPT !.target = f.tmp, !.tmp = Absent]

\* save_locations, lines 46-47: os.remove(backup_file)
save_remove_backup(f) == IF exists(f.bak) THEN [f EXCEPT !.bak = Absent] ELSE f

\* save_locations run to its end
save_locations(f, locations) ==
    save_remove_backup(
        save_rename_temp(
            save_move_backup(
                save_dump_temp(save_open_temp(f), locations))))

(***************************************************************************)
(* Dict helpers.                                                           *)
(***************************************************************************)
Keys(locations) == {locations[i].name : i \in 1..Len(locations)}

\* the position of key name
IndexOf(locations, name) == CHOOSE i \in 1..Len(locations) : locations[i].name = name

\* a new dict with the entry alone, in the place of an assignment to a key
DictSetAlone(locations, entry) == <<entry>>

\* locations[name] = entry: in place for an existing key, else at the end
DictSet(locations, entry) ==
    IF entry.name \in Keys(locations)
    THEN [locations EXCEPT ![IndexOf(locations, entry.name)] = entry]
    ELSE Append(locations, entry)

\* del locations[name]
DictDel(locations, name) ==
    LET i == IndexOf(locations, name)
    IN SubSeq(locations, 1, i - 1) \o SubSeq(locations, i + 1, Len(locations))

\* what a handler leaves behind: the files, the returned value, whether it
\* called save_locations, and the branch its log line names
Outcome(f, value, saved, log) == [fs |-> f, value |-> value, saved |-> saved, log |-> log]

\* the value locations[name] of an entry
Data(entry) ==
    [galaxy |-> entry.galaxy, address |-> entry.address,
     num_returns |-> entry.num_returns, description |-> entry.description]

None == [some |-> FALSE, v |-> <<>>]

Some(v) == [some |-> TRUE, v |-> v]

(***************************************************************************)
(* find_location_in_string                                                 *)
(***************************************************************************)
\* the list matches of the single-word pass for one input word
RECURSIVE WordMatches(_, _, _)
WordMatches(word, names, threshold) ==
    IF names = <<>> THEN <<>>
    ELSE LET hits == SelectSeq(split(Head(names)),
                               LAMBDA w : ratio(word, w) >= threshold)
         IN [i \in 1..Len(hits) |-> Head(names)]
                \o WordMatches(word, Tail(names), threshold)

\* the first name that contains the input, however many do
SubstringPassAny(input_lower, location_names) ==
    LET substring_matches ==
            SelectSeq(location_names, LAMBDA n : IsSubstring(input_lower, lower(n)))
    IN IF 1 <= Len(substring_matches)
       THEN <<substring_matches[1], "substring match">>
       ELSE <<>>

\* lines 79-81: one or two names contain the input: the first of them
SubstringPass(input_lower, location_names) ==
    LET substring_matches ==
            SelectSeq(location_names, LAMBDA n : IsSubstring(input_lower, lower(n)))
    IN IF 1 <= Len(substring_matches) /\ Len(substring_matches) <= 2
       THEN <<substring_matches[1], "substring match">>
       ELSE <<>>

\* lines 96-101: the best partial ratio reaches the threshold, and the name
\* is inside the input or one input word is close to the whole name
FuzzyPass(input_lower, best_match, threshold) ==
    IF /\ best_match # <<>>
       /\ best_match[2] >= threshold
       /\ \/ IsSubstring(lower(best_match[1]), input_lower)
          \/ \E w \in {split(input_lower)[k] : k \in 1..Len(split(input_lower))} :
                 ratio(w, lower(best_match[1])) >= threshold
    THEN <<best_match[1], "fuzzy match">>
    ELSE <<>>

\* lines 110-118: the first input word whose list matches has one element;
\* matches[k] is the list of the k-th word
SingleWordPass(matches) ==
    LET unique == {k \in 1..Len(matches) : Len(matches[k]) = 1}
    IN IF unique = {} THEN <<>>
       ELSE <<matches[CHOOSE k \in unique : \A j \in unique : k <= j][1],
              "single-word match">>

\* the three passes in their order; each is <<name, log>> or <<>>
Cascade(first, second, third) ==
    IF first # <<>> THEN first ELSE IF second # <<>> THEN second ELSE third

MatchOf(location_names, input_lower, threshold) ==
    Cascade(SubstringPass(input_lower, location_names),
            FuzzyPass(input_lower, extractOne(input_lower, location_names), threshold),
            SingleWordPass([k \in 1..Len(split(input_lower)) |->
                                WordMatches(split(input_lower)[k], location_names,
                                            threshold)]))

\* every counter incremented on a hit
HitAll(f, locations, match) ==
    IF match = <<>>
    THEN Outcome(f, <<>>, FALSE, "no location")
    ELSE Outcome(save_locations(f,
                     [i \in 1..Len(locations) |->
                          [locations[i] EXCEPT !.num_returns = @ + 1]]),
                 <<[Data(locations[IndexOf(locations, match[1])])
                       EXCEPT !.num_returns = @ + 1]>>,
                 TRUE, match[2])

\* lines 82-86, 102-106, 119-123: count the hit, save, return the record
Hit(f, locations, match) ==
    IF match = <<>>
    THEN Outcome(f, <<>>, FALSE, "no location")
    ELSE Outcome(save_locations(f,
                     [locations EXCEPT ![IndexOf(locations, match[1])].num_returns
                                            = @ + 1]),
                 <<[Data(locations[IndexOf(locations, match[1])])
                       EXCEPT !.num_returns = @ + 1]>>,
                 TRUE, match[2])

\* input is [isstr, s]: a str with its text, or a value that is not a str.
\* The value is <<>> for None, else the one-element list of the record.
find_location_in_string(f, input, threshold) ==
    IF ~input.isstr \/ input.s = <<>>
    THEN Outcome(f, <<>>, FALSE, "invalid input")
    ELSE Hit(f, load_locations(f),
             MatchOf([i \in 1..Len(load_locations(f)) |-> load_locations(f)[i].name],
                     lower(input.s), threshold))

(***************************************************************************)
(* register_location                                                       *)
(***************************************************************************)
\* f"{galaxy}-{address}"
PairKey(galaxy, address) == galaxy \o <<"-">> \o address

\* line 134, left of the or: name.lower() in [n.lower() for n in keys]
NameTakenExact(locations, name) == name \in Keys(locations)

NameTaken(locations, name) ==
    lower(name) \in {lower(locations[i].name) : i \in 1..Len(locations)}

\* line 134, right of the or: the lower-cased galaxy-address text is that of
\* an entry
PairTakenExact(locations, galaxy, address) ==
    \E i \in 1..Len(locations) :
        locations[i].galaxy = galaxy /\ locations[i].address = address

PairTaken(locations, galaxy, address) ==
    lower(PairKey(galaxy, address))
        \in {lower(PairKey(locations[i].galaxy, locations[i].address)) :
                 i \in 1..Len(locations)}

\* the new entry counted as returned once
register_location_counted(f, name, galaxy, address, description) ==
    LET locations == load_locations(f)
    IN IF NameTaken(locations, name) \/ PairTaken(locations, galaxy, address)
       THEN Outcome(f, FALSE, FALSE, "duplicate")
       ELSE Outcome(save_locations(f,
                        DictSet(locations,
                                [name |-> name, galaxy |-> galaxy, address |-> address,
                                 num_returns |-> 1, description |-> description])),
                    TRUE, TRUE, "registered")

\* lines 129-148
register_location(f, name, galaxy, address, description) ==
    LET locations == load_locations(f)
    IN IF NameTaken(locations, name) \/ PairTaken(locations, galaxy, address)
       THEN Outcome(f, FALSE, FALSE, "duplicate")
       ELSE Outcome(save_locations(f,
                        DictSet(locations,
                                [name |-> name, galaxy |-> galaxy, address |-> address,
                                 num_returns |-> 0, description |-> description])),
                    TRUE, TRUE, "registered")

(***************************************************************************)
(* modify_location                                                         *)
(***************************************************************************)
\* the guard with and in the place of or
OldValuesBothDiffer(loc, old_galaxy, old_address) ==
    loc.galaxy # old_galaxy /\ loc.address # old_address

\* line 189: the entry is not what the caller saw
OldValuesDiffer(loc, old_galaxy, old_address) ==
    loc.galaxy # old_galaxy \/ loc.address # old_address

\* the description assigned whether or not one was given
ApplyFieldsAlways(loc, new_galaxy, new_address, new_description) ==
    [loc EXCEPT !.galaxy = IF new_galaxy.some THEN new_galaxy.v ELSE @,
                !.address = IF new_address.some THEN new_address.v ELSE @,
                !.description = new_description.v]

\* lines 194-199: the fields that are not None are assigned
ApplyFields(loc, new_galaxy, new_address, new_description) ==
    [loc EXCEPT !.galaxy = IF new_galaxy.some THEN new_galaxy.v ELSE @,
                !.address = IF new_address.some THEN new_address.v ELSE @,
                !.description = IF new_description.some THEN new_description.v ELSE @]

\* new_galaxy, new_address and new_description are None or Some(text)
modify_location(f, name, old_galaxy, old_address, new_galaxy, new_address, new_description) ==
    LET locations == load_locations(f)
        name_lower == lower(name)
    IN IF name_lower \notin Keys(locations)
       THEN Outcome(f, FALSE, FALSE, "not found")
       ELSE
         LET i == IndexOf(locations, name_lower)
             loc == locations[i]
         IN IF OldValuesDiffer(loc, old_galaxy, old_address)
            THEN Outcome(f, FALSE, FALSE, "old values differ")
            ELSE IF new_galaxy.some \/ new_address.some \/ new_description.some
            THEN Outcome(save_locations(f,
                             [locations EXCEPT ![i] =
                                  ApplyFields(loc, new_galaxy, new_address,
                                              new_description)]),
                         TRUE, TRUE, "modified")
            ELSE Outcome(f, TRUE, FALSE, "nothing to modify")

(***************************************************************************)
(* list_top_locations                                                      *)
(***************************************************************************)
\* int(num): num is [kind, i, s], an int, a str or another value (None).
\* int() of a str strips it and takes an optional sign and decimal digits;
\* ValueError and TypeError give 0.
ParseNum(num) ==
    IF num.kind = "int" THEN num.i
    ELSE IF num.kind # "str" THEN 0
    ELSE LET t == strip(num.s)
             signed == t # <<>> /\ Head(t) \in {"-", "+"}
             body == IF signed THEN Tail(t) ELSE t
         IN IF ~isdigit(body) THEN 0
            ELSE IF signed /\ Head(t) = "-" THEN 0 - DigitsToInt(body)
            ELSE DigitsToInt(body)

\* insertion in front of the entries of the same key
RECURSIVE InsertDescUnstable(_, _)
InsertDescUnstable(sorted, e) ==
    IF sorted = <<>> THEN <<e>>
    ELSE IF Head(sorted).num_returns > e.num_returns
         THEN <<Head(sorted)>> \o InsertDescUnstable(Tail(sorted), e)
         ELSE <<e>> \o sorted

\* insertion of one entry behind every entry of a key at least its own
RECURSIVE InsertDesc(_, _)
InsertDesc(sorted, e) ==
    IF sorted = <<>> THEN <<e>>
    ELSE IF Head(sorted).num_returns >= e.num_returns
         THEN <<Head(sorted)>> \o InsertDesc(Tail(sorted), e)
         ELSE <<e>> \o sorted

\* sorted(locations.items(), key=num_returns, reverse=True): stable
RECURSIVE SortedDesc(_)
SortedDesc(items) ==
    IF items = <<>> THEN <<>>
    ELSE InsertDesc(SortedDesc(SubSeq(items, 1, Len(items) - 1)), items[Len(items)])

\* the slice seq[:n] of Python
SliceTo(seq, n) ==
    LET stop == IF n >= 0
                THEN (IF n < Len(seq) THEN n ELSE Len(seq))
                ELSE (IF Len(seq) + n > 0 THEN Len(seq) + n ELSE 0)
    IN SubSeq(seq, 1, stop)

list_top_locations(f, num) ==
    LET n == ParseNum(num)
        locations == load_locations(f)
        sorted_locs == SortedDesc(locations)
    IN Outcome(f, SliceTo(sorted_locs, n), FALSE, "top")

(***************************************************************************)
(* RemoveModal.on_submit                                                   *)
(***************************************************************************)
remove_location(f, galaxy_input, address_input) ==
    LET address == upper(address_input)
        galaxy_check_input ==
            IF isdigit(galaxy_input)
            THEN GalaxyWord \o <<" ">> \o galaxy_input
            ELSE galaxy_input
        gal == check_galaxy_mention(galaxy_check_input)
        galaxy == IntToStr(gal.galaxy_id)
        locations == load_locations(f)
        found == {i \in 1..Len(locations) :
                      locations[i].galaxy = galaxy /\ locations[i].address = address}
        first == CHOOSE i \in found : \A j \in found : i <= j
        \* None and the empty name are both falsy in  if matched_name:
        matched_name == IF found = {} THEN <<>> ELSE locations[first].name
    IN IF ~gal.is_galaxy \/ ~(1 <= gal.galaxy_id /\ gal.galaxy_id <= 256)
       THEN Outcome(f, FALSE, FALSE, "invalid galaxy")
       ELSE IF ~validate_address(address)
       THEN Outcome(f, FALSE, FALSE, "invalid address")
       ELSE IF matched_name = <<>>
       THEN Outcome(f, FALSE, FALSE, "not found")
       ELSE Outcome(save_locations(f, DictDel(locations, matched_name)),
                    TRUE, TRUE, "removed")

(***************************************************************************)
(* Bounds and the inputs the callers draw from.                            *)
(***************************************************************************)
\* the counters are explored up to this value
MaxReturns == 1

Names == {<<"a", "b">>, <<"A", "b">>, <<"c", " ", "d">>}

Galaxies == {<<"1">>, <<"9">>}

AddrUpper == <<"1", "A", "0", "0", "0", "0", "0", "0", "0", "0", "0", "0">>

AddrLower == <<"1", "a", "0", "0", "0", "0", "0", "0", "0", "0", "0", "0">>

Addresses == {AddrUpper, AddrLower}

Descriptions == {<<"x">>, <<"y">>}

Optional(S) == {None} \cup {Some(v) : v \in S}

Str(s) == [isstr |-> TRUE, s |-> s]

NotStr == [isstr |-> FALSE, s |-> <<>>]

\* texts to resolve: empty, not a str, a name fragment, a name inside a
\* phrase, a phrase sharing one word with a name, an unknown word
Texts == {Str(<<>>), NotStr, Str(<<"a">>), Str(<<"a", "b", " ", "x">>), Str(<<"d", " ", "x">>), Str(<<"x">>)}

IntNum(i) == [kind |-> "int", i |-> i, s |-> <<>>]

StrNum(s) == [kind |-> "str", i |-> 0, s |-> s]

NoneNum == [kind |-> "none", i |-> 0, s |-> <<>>]

Nums == {IntNum(i) : i \in -2..3} \cup {StrNum(<<"a", "b", "c">>), StrNum(<<"2">>), NoneNum}

GalaxyInputs == Galaxies \cup {<<"E", "u", "c", "l", "i", "d">>, <<"3", "0", "0">>}

AddressInputs == Addresses \cup {<<"7", "A", "0", "0", "0", "0", "0", "0", "0", "0", "0", "0">>}

(***************************************************************************)
(* The state machine. A caller issues one call at a time (Invoke), the     *)
(* handler of the call runs to its end as one step, and the caller takes   *)
(* the result (Reply) before the next call.                                *)
(***************************************************************************)
VARIABLES
    fs,     \* the files: [target, tmp, bak]
    phase,  \* "idle", "called", "returned", or a step of save_locations
    call,   \* the pending call and its arguments
    res     \* what the last handler returned: [op, value, saved, log]

vars == <<fs, phase, call, res>>

NoCall == [op |-> "none"]

NoRes == [op |-> "none", value |-> FALSE, saved |-> FALSE, log |-> "none"]

EmptyFs == [target |-> Absent, tmp |-> Absent, bak |-> Absent]

Init ==
    /\ fs = EmptyFs
    /\ phase = "idle"
    /\ call = NoCall
    /\ res = NoRes

\* the counters of a dict stay within the explored range
InRange(locations) ==
    \A i \in 1..Len(locations) : locations[i].num_returns <= MaxReturns

Invoke ==
    /\ phase = "idle"
    /\ phase' = "called"
    /\ UNCHANGED <<fs, res>>
    /\ \/ \E n \in Names, g \in Galaxies, a \in Addresses, d \in Descriptions :
              call' = [op |-> "register", name |-> n, galaxy |-> g, address |-> a,
                       description |-> d]
       \/ \E n \in Names, og \in Galaxies, oa \in Addresses,
             ng \in Optional(Galaxies), na \in Optional(Addresses),
             nd \in Optional({<<"y">>}) :
              call' = [op |-> "modify", name |-> n, old_galaxy |-> og,
                       old_address |-> oa, new_galaxy |-> ng, new_address |-> na,
                       new_description |-> nd]
       \/ \E g \in GalaxyInputs, a \in AddressInputs :
              call' = [op |-> "remove", galaxy |-> g, address |-> a]
       \/ \E x \in Texts :
              /\ InRange(load_locations(find_location_in_string(fs, x, Threshold).fs))
              /\ call' = [op |-> "resolve", input |-> x]
       \/ \E n \in Nums :
              call' = [op |-> "top", num |-> n]

Return(op, out) ==
    /\ fs' = out.fs
    /\ res' = [op |-> op, value |-> out.value, saved |-> out.saved, log |-> out.log]
    /\ phase' = "returned"
    /\ UNCHANGED call

Register ==
    /\ phase = "called" /\ call.op = "register"
    /\ Return("register",
              register_location(fs, call.name, call.galaxy, call.address,
                                call.description))

Modify ==
    /\ phase = "called" /\ call.op = "modify"
    /\ Return("modify",
              modify_location(fs, call.name, call.old_galaxy, call.old_address,
                              call.new_galaxy, call.new_address,
                              call.new_description))

Remove ==
    /\ phase = "called" /\ call.op = "remove"
    /\ Return("remove", remove_location(fs, call.galaxy, call.address))

Resolve ==
    /\ phase = "called" /\ call.op = "resolve"
    /\ Return("resolve", find_location_in_string(fs, call.input, Threshold))

TopN ==
    /\ phase = "called" /\ call.op = "top"
    /\ Return("top", list_top_locations(fs, call.num))

\* the caller has sent its answer; call and result are gone
Reply ==
    /\ phase = "returned"
    /\ phase' = "idle"
    /\ res' = NoRes
    /\ call' = NoCall
    /\ UNCHANGED fs

Next == Invoke \/ Register \/ Modify \/ Remove \/ Resolve \/ TopN \/ Reply

Spec == Init /\ [][Next]_vars

(***************************************************************************)
(* save_locations step by step, with a crash or an exception possible      *)
(* before every step. The store starts absent or with a saved dict.        *)
(***************************************************************************)
EntryA == [name |-> <<"a", "b">>, galaxy |-> <<"1">>, address |-> AddrUpper,
           num_returns |-> 0, description |-> <<"x">>]

EntryB == [name |-> <<"c", " ", "d">>, galaxy |-> <<"9">>, address |-> AddrUpper,
           num_returns |-> 1, description |-> <<"y">>]

SaveDicts == {<<>>, <<EntryA>>, <<EntryB>>, <<EntryA, EntryB>>}

SavePhases == {"save: open", "save: dump", "save: move", "save: rename", "save: remove"}

InitSave ==
    /\ fs \in {[EmptyFs EXCEPT !.target = t] :
                   t \in {Absent} \cup {Json(d) : d \in SaveDicts}}
    /\ phase = "idle"
    /\ call = NoCall
    /\ res = NoRes

\* a caller enters save_locations; old is the target file at that moment
SaveCall ==
    /\ phase \in {"idle", "returned", "crashed"}
    /\ \E d \in SaveDicts :
           call' = [op |-> "save", locations |-> d, old |-> fs.target]
    /\ phase' = "save: open"
    /\ res' = NoRes
    /\ UNCHANGED fs

SaveOpenTemp ==
    /\ phase = "save: open"
    /\ fs' = save_open_temp(fs)
    /\ phase' = "save: dump"
    /\ UNCHANGED <<call, res>>

SaveDumpTemp ==
    /\ phase = "save: dump"
    /\ fs' = save_dump_temp(fs, call.locations)
    /\ phase' = "save: move"
    /\ UNCHANGED <<call, res>>

SaveMoveBackup ==
    /\ phase = "save: move"
    /\ fs' = save_move_backup(fs)
    /\ phase' = "save: rename"
    /\ UNCHANGED <<call, res>>

SaveRenameTemp ==
    /\ phase = "save: rename"
    /\ fs' = save_rename_temp(fs)
    /\ phase' = "save: remove"
    /\ UNCHANGED <<call, res>>

SaveRemoveBackup ==
    /\ phase = "save: remove"
    /\ fs' = save_remove_backup(fs)
    /\ phase' = "returned"
    /\ res' = [op |-> "save", value |-> TRUE, saved |-> TRUE, log |-> "saved"]
    /\ UNCHANGED call

\* the process dies, or a step raises and lines 50-53 re-raise: the files
\* stay as they are
SaveInterrupted ==
    /\ phase \in SavePhases
    /\ phase' = "crashed"
    /\ UNCHANGED <<fs, call, res>>

NextSave ==
    \/ SaveCall \/ SaveOpenTemp \/ SaveDumpTemp \/ SaveMoveBackup
    \/ SaveRenameTemp \/ SaveRemoveBackup \/ SaveInterrupted

SpecSave == InitSave /\ [][NextSave]_vars

(***************************************************************************)
(* Properties.                                                             *)
(***************************************************************************)
\* the persisted registry
Registry == load_locations(fs)

Returned(op) == phase = "returned" /\ call.op = op

\* C1: in every reachable registry no two records share the same
\* (galaxy, address) pair.
C1_UniquePairs ==
    \A i, j \in 1..Len(Registry) :
        (Registry[i].galaxy = Registry[j].galaxy
            /\ Registry[i].address = Registry[j].address) => i = j

\* C2: in every reachable registry no two record names are equal when
\* compared case-insensitively.
C2_UniqueNames ==
    \A i, j \in 1..Len(Registry) :
        lower(Registry[i].name) = lower(Registry[j].name) => i = j

\* a register call on a name that differs from a stored one only by case was
\* refused, next to a second record
C2_Witness ==
    /\ Returned("register")
    /\ res.value = FALSE
    /\ Len(Registry) = 2
    /\ call.name \notin Keys(Registry)
    /\ \E i \in 1..Len(Registry) : lower(Registry[i].name) = lower(call.name)

\* C3: at every point of a save, also after an interruption, the target file
\* is never a partially written file, and the target holds the complete old
\* collection, or the backup holds it, or the target holds the complete new
\* collection.
C3_SaveRecoverable ==
    call.op = "save" =>
        /\ fs.target.kind # "partial"
        /\ \/ fs.target = call.old
           \/ fs.bak = call.old
           \/ fs.target = Json(call.locations)

\* a save interrupted between the move and the rename: the old collection is
\* in the backup only
C3_Witness ==
    /\ phase = "crashed"
    /\ call.op = "save"
    /\ call.old.kind = "json"
    /\ call.old.data # <<>>
    /\ fs.target = Absent
    /\ fs.bak = call.old
    /\ fs.tmp = Json(call.locations)

\* the step of the handler of op: the call is pending in the state before,
\* the files and the result of the state after are the handler's
Handles(op) == phase = "called" /\ call.op = op

\* C4: resolve either returns no match and leaves the files untouched (always
\* so for an empty or non-text input), or returns a record and the registry
\* afterwards differs in exactly one record's num_returns, larger by 1.
C4_ResolveFrame ==
    [][Handles("resolve") =>
          LET before == load_locations(fs)
              after == load_locations(fs')
          IN /\ (~call.input.isstr \/ call.input.s = <<>>)
                    => (res'.value = <<>> /\ fs' = fs)
             /\ \/ res'.value = <<>> /\ fs' = fs
                \/ /\ res'.value # <<>>
                   /\ Len(after) = Len(before)
                   /\ \E i \in 1..Len(before) :
                          /\ after[i] = [before[i] EXCEPT !.num_returns = @ + 1]
                          /\ \A j \in 1..Len(before) : j # i => after[j] = before[j]
      ]_vars

\* a resolve found one record of a registry of two
C4_Witness ==
    /\ Returned("resolve")
    /\ res.value # <<>>
    /\ Len(Registry) = 2
    /\ res.log = "single-word match"

\* the effect of a successful register: one record more, at the end
C5_Inserted(before, after) ==
    /\ Len(after) = Len(before) + 1
    /\ \A i \in 1..Len(before) : after[i] = before[i]
    /\ after[Len(after)] =
           [name |-> call.name, galaxy |-> call.galaxy, address |-> call.address,
            num_returns |-> 0, description |-> call.description]

C5_Register(taken(_)) ==
    Handles("register") =>
        LET before == load_locations(fs)
            after == load_locations(fs')
        IN IF taken(before)
           THEN res'.value = FALSE /\ fs' = fs
           ELSE res'.value = TRUE /\ C5_Inserted(before, after)

C5_SameName(before) ==
    \E i \in 1..Len(before) : lower(before[i].name) = lower(call.name)

\* C5 as claimed: register fails and changes nothing when the name equals a
\* stored name case-insensitively or when (galaxy, address) is stored under
\* any name; otherwise it succeeds and adds exactly that record with
\* num_returns 0.
C5_RegisterExactPair ==
    [][C5_Register(LAMBDA before :
           \/ C5_SameName(before)
           \/ \E i \in 1..Len(before) :
                  before[i].galaxy = call.galaxy /\ before[i].address = call.address)
      ]_vars

\* C5 as amended: register fails and changes nothing when the name equals a
\* stored name case-insensitively or when the text galaxy-address equals that
\* of a stored record case-insensitively; otherwise it succeeds and adds
\* exactly that record with num_returns 0.
C5_RegisterFoldedPair ==
    [][C5_Register(LAMBDA before :
           \/ C5_SameName(before)
           \/ \E i \in 1..Len(before) :
                  lower(before[i].galaxy \o <<"-">> \o before[i].address)
                      = lower(call.galaxy \o <<"-">> \o call.address))
      ]_vars

\* a register was refused although its name is new and its (galaxy, address)
\* is stored nowhere: an address of another letter case is
C5_Witness ==
    /\ Returned("register")
    /\ res.value = FALSE
    /\ ~C5_SameName(Registry)
    /\ \A i \in 1..Len(Registry) :
           Registry[i].galaxy # call.galaxy \/ Registry[i].address # call.address

\* C6: modify finds a record by its name in any letter case: called with the
\* record's current galaxy and address it succeeds.
C6_ModifyAnyCase ==
    [][(/\ Handles("modify")
        /\ \E i \in 1..Len(load_locations(fs)) :
               /\ lower(load_locations(fs)[i].name) = lower(call.name)
               /\ load_locations(fs)[i].galaxy = call.old_galaxy
               /\ load_locations(fs)[i].address = call.old_address)
          => res'.value = TRUE
      ]_vars

\* C7: modify fails and changes nothing when the record's galaxy or address
\* is not the supplied old one; and after a modify that changed the galaxy, a
\* modify with the previous old values fails as stale.
C7_StaleModifyFails ==
    [][Handles("modify") =>
          LET before == load_locations(fs)
          IN /\ (\E i \in 1..Len(before) :
                     /\ lower(before[i].name) = lower(call.name)
                     /\ \/ before[i].galaxy # call.old_galaxy
                        \/ before[i].address # call.old_address)
                    => (res'.value = FALSE /\ fs' = fs)
             /\ (/\ res'.value = TRUE
                 /\ call.new_galaxy.some
                 /\ call.new_galaxy.v # call.old_galaxy)
                    => \A ng \in Optional(Galaxies), na \in Optional(Addresses),
                          nd \in Optional(Descriptions) :
                           LET again == modify_location(fs', call.name, call.old_galaxy,
                                                        call.old_address, ng, na, nd)
                           IN /\ again.value = FALSE
                              /\ again.fs = fs'
                              /\ again.log = "old values differ"
      ]_vars

\* a modify was refused because the record's galaxy is no longer the old one
\* of the call, its address still is
C7_Witness ==
    /\ Returned("modify")
    /\ res.value = FALSE
    /\ \E i \in 1..Len(Registry) :
           /\ Registry[i].name = lower(call.name)
           /\ Registry[i].galaxy # call.old_galaxy
           /\ Registry[i].address = call.old_address

C8_Provided == call.new_galaxy.some \/ call.new_address.some \/ call.new_description.some

C8_Modify(written(_, _)) ==
    (Handles("modify") /\ res'.value = TRUE) =>
        LET before == load_locations(fs)
            after == load_locations(fs')
        IN /\ Len(after) = Len(before)
           /\ \E i \in 1..Len(before) :
                  /\ lower(before[i].name) = lower(call.name)
                  /\ after[i].name = before[i].name
                  /\ after[i].num_returns = before[i].num_returns
                  /\ after[i].galaxy = IF call.new_galaxy.some
                                       THEN call.new_galaxy.v ELSE before[i].galaxy
                  /\ after[i].address = IF call.new_address.some
                                        THEN call.new_address.v ELSE before[i].address
                  /\ after[i].description =
                         IF call.new_description.some
                         THEN call.new_description.v ELSE before[i].description
                  /\ \A j \in 1..Len(before) : j # i => after[j] = before[j]
           /\ res'.saved => written(before, after)
           /\ ~res'.saved => fs' = fs

\* C8 as claimed: a successful modify changes only the provided fields of the
\* record, keeps the rest, and writes the store only if a field changed.
C8_WritesOnlyChanges ==
    [][C8_Modify(LAMBDA before, after : after # before)]_vars

\* C8 as amended: a successful modify changes only the provided fields of the
\* record, keeps the rest, and writes the store if and only if a field was
\* provided, whether or not its value differs from the current one.
C8_WritesOnlyProvided ==
    [][/\ C8_Modify(LAMBDA before, after : C8_Provided)
       /\ (Handles("modify") /\ res'.value = TRUE /\ C8_Provided) => res'.saved
      ]_vars

\* a modify given the current galaxy as the new one: nothing changes, the
\* store is written
C8_Witness ==
    /\ Returned("modify")
    /\ res.value = TRUE
    /\ res.saved
    /\ call.new_galaxy = Some(call.old_galaxy)
    /\ ~call.new_address.some
    /\ ~call.new_description.some

\* C9: topN returns an empty list for every n that is zero, negative or not
\* parsable as an integer (the three have ParseNum at most 0).
C9_EmptyTop ==
    (Returned("top") /\ ParseNum(call.num) <= 0) => res.value = <<>>

\* C10: for positive n topN returns min(n, s) records, by num_returns
\* descending, equal ones in registry order, none left out above one
\* returned, and the files are untouched.
C10_TopOrder ==
    [][(Handles("top") /\ ParseNum(call.num) > 0) =>
          LET n == ParseNum(call.num)
              before == load_locations(fs)
              top == res'.value
              pos(e) == IndexOf(before, e.name)
          IN /\ fs' = fs
             /\ Len(top) = IF n < Len(before) THEN n ELSE Len(before)
             /\ \A k \in 1..Len(top) : \E i \in 1..Len(before) : top[k] = before[i]
             /\ \A k, l \in 1..Len(top) :
                    k < l => \/ top[k].num_returns > top[l].num_returns
                             \/ /\ top[k].num_returns = top[l].num_returns
                                /\ pos(top[k]) < pos(top[l])
             /\ \A i \in 1..Len(before), k \in 1..Len(top) :
                    (\A l \in 1..Len(top) : top[l] # before[i])
                        => before[i].num_returns <= top[k].num_returns
      ]_vars

\* top 1 of two records is the second of the registry
C10_Witness ==
    /\ Returned("top")
    /\ ParseNum(call.num) = 1
    /\ Len(Registry) = 2
    /\ Len(res.value) = 1
    /\ res.value[1] = Registry[2]

\* C11: the value register returns on a duplicate name differs from the one it
\* returns on a duplicate (galaxy, address), and the value modify returns for
\* a name it does not find differs from the one it returns on stale old
\* values: the caller can tell the failures apart by the value alone.
C11_DistinctFailures ==
    /\ (/\ Returned("register")
        /\ res.value # TRUE
        /\ NameTaken(Registry, call.name)
        /\ ~PairTaken(Registry, call.galaxy, call.address))
           => \A n \in Names, g \in Galaxies, a \in Addresses :
                  (~NameTaken(Registry, n) /\ PairTaken(Registry, g, a))
                      => register_location(fs, n, g, a, call.description).value
                             # res.value
    /\ (/\ Returned("modify")
        /\ res.value # TRUE
        /\ res.log = "not found")
           => \A n \in Names, g \in Galaxies, a \in Addresses :
                  LET other == modify_location(fs, n, g, a, call.new_galaxy,
                                               call.new_address, call.new_description)
                  IN other.log = "old values differ" => other.value # res.value

(***************************************************************************)
(* check_galaxy_mention on its own: a caller passes a text, the function   *)
(* returns. The texts are the concatenations of at most MaxTokens tokens.  *)
(***************************************************************************)
MaxTokens == 3

GalaxyTokens ==
    { <<"g", "a", "l", "a", "x", "y", " ">>, <<"7">>, <<"3", "0", "0">>,
      <<"0">>, <<"2", "5", "6">>, <<"E", "u", "c", "l", "i", "d">>,
      <<"h", "y", "a", "d", "e", "s">>, <<" ", "x">> }

RECURSIVE TokenTexts(_)
TokenTexts(n) ==
    IF n = 0 THEN {<<>>}
    ELSE LET shorter == TokenTexts(n - 1)
         IN shorter \cup {t \o k : t \in shorter, k \in GalaxyTokens}

GalaxyInvoke ==
    /\ phase = "idle"
    /\ \E t \in TokenTexts(MaxTokens) : call' = [op |-> "galaxy", text |-> t]
    /\ phase' = "called"
    /\ UNCHANGED <<fs, res>>

GalaxyCheck ==
    /\ phase = "called" /\ call.op = "galaxy"
    /\ res' = [op |-> "galaxy", value |-> check_galaxy_mention(call.text),
               saved |-> FALSE, log |-> "none"]
    /\ phase' = "returned"
    /\ UNCHANGED <<fs, call>>

NextGalaxy == GalaxyInvoke \/ GalaxyCheck \/ Reply

SpecGalaxy == Init /\ [][NextGalaxy]_vars

\* the text has 'galaxy', spaces and digits at position p, and the number is
\* outside 1..256
C12_OutOfRangeAt(text, p) ==
    LET s == p + Len(GalaxyWord)
        d == s + SpaceRun(text, s)
        n == DigitsToInt(Slice(text, d, d + DigitRun(text, d)))
    IN /\ s - 1 <= Len(text)
       /\ Slice(text, p, s) = GalaxyWord
       /\ SpaceRun(text, s) >= 1
       /\ DigitRun(text, d) >= 1
       /\ (n < 1 \/ n > 256)

\* the known galaxy names the text contains, as indices of the table
C12_Named(text) ==
    {n \in 1..Len(known_galaxies) : IsSubstring(known_galaxies[n].name, text)}

\* what C12 says in every form: a result is a failure or an ID in 1..256, a
\* text with neither the pattern nor a known name fails, 'galaxy 7' gives 7
\* and 'Euclid' gives 1
C12_Common ==
    LET text == lower(call.text)
        out == res.value
    IN /\ out.is_galaxy => (1 <= out.galaxy_id /\ out.galaxy_id <= 256)
       /\ (GalaxyPattern(text) = <<>> /\ C12_Named(text) = {}) => ~out.is_galaxy
       /\ call.text = GalaxyWord \o <<" ", "7">>
              => (out.is_galaxy /\ out.galaxy_id = 7)
       /\ call.text = <<"E", "u", "c", "l", "i", "d">>
              => (out.is_galaxy /\ out.galaxy_id = 1)

\* C12 as claimed: the parser returns a failure or an ID in 1..256, fails
\* when neither the pattern nor a known name matches, and fails whenever the
\* text carries a 'galaxy N' with N outside 1..256, whatever else it holds;
\* 'galaxy 7' gives 7 and 'Euclid' gives 1.
C12_OutOfRangeFails ==
    Returned("galaxy") =>
        /\ C12_Common
        /\ (\E p \in 1..Len(call.text) : C12_OutOfRangeAt(lower(call.text), p))
               => ~res.value.is_galaxy

\* C12 as amended: the parser returns a failure or an ID in 1..256, fails
\* when neither the pattern nor a known name matches, and when the leftmost
\* 'galaxy N' of the text has N outside 1..256 it fails if the text contains
\* no known galaxy name and gives the ID of the first table entry the text
\* contains otherwise; 'galaxy 7' gives 7 and 'Euclid' gives 1.
C12_OutOfRangeFallsToNames ==
    Returned("galaxy") =>
        /\ C12_Common
        /\ LET text == lower(call.text)
               m == GalaxyPattern(text)
               n == DigitsToInt(m)
               named == C12_Named(text)
           IN (m # <<>> /\ (n < 1 \/ n > 256)) =>
                  IF named = {} THEN ~res.value.is_galaxy
                  ELSE /\ res.value.is_galaxy
                       /\ \E k \in named :
                              /\ \A j \in named : k <= j
                              /\ res.value.galaxy_id = known_galaxies[k].id

\* 'galaxy 300' next to a known name: the name's ID is returned
C12_Witness ==
    /\ Returned("galaxy")
    /\ \E p \in 1..Len(call.text) : C12_OutOfRangeAt(lower(call.text), p)
    /\ GalaxyPattern(lower(call.text)) = <<"3", "0", "0">>
    /\ C12_Named(lower(call.text)) # {}
    /\ res.value.is_galaxy

(***************************************************************************)
(* Two callers, each in one register_location call on the same file, step  *)
(* by step (two processes, such as two bots or the bot and the command     *)
(* line demo). Here phase, call and res hold one value per caller. A       *)
(* caller's open file follows its inode: the entry handle of its call is   *)
(* the path where that inode now is, or "unlinked".                        *)
(***************************************************************************)
Procs == {1, 2}

ConcCalls ==
    { [name |-> <<"a", "b">>, galaxy |-> <<"1">>, address |-> AddrUpper, description |-> <<"x">>],
      [name |-> <<"c", " ", "d">>, galaxy |-> <<"9">>, address |-> AddrUpper, description |-> <<"y", "y">>],
      [name |-> <<"A", "b">>, galaxy |-> <<"9">>, address |-> AddrLower, description |-> <<"x">>] }

Other(p) == CHOOSE q \in Procs : q # p

\* the length of str(n) for a natural number n
NumLen(n) == Len(IntToStr(n))

\* the length of one entry in the text of json.dump(locations, f, indent=4)
EntrySize(e) ==
    4 + (Len(e.name) + 2) + 3 + 1
      + (21 + Len(e.galaxy)) + 1
      + (22 + Len(e.address)) + 1
      + (24 + NumLen(e.num_returns)) + 1
      + (25 + Len(e.description)) + 6

RECURSIVE EntriesSize(_)
EntriesSize(locations) ==
    IF locations = <<>> THEN 0
    ELSE EntrySize(Head(locations)) + EntriesSize(Tail(locations))

\* the length of the text of json.dump(locations, f, indent=4)
JsonSize(locations) ==
    IF locations = <<>> THEN 2
    ELSE 2 + EntriesSize(locations) + 2 * (Len(locations) - 1) + 2

\* the length of a file: a truncated file is empty, a file left with the
\* tail of a longer text keeps the length of that text (its data)
FileSize(file) ==
    IF file.kind = "partial" /\ file.data = <<>> THEN 0 ELSE JsonSize(file.data)

\* a write of the text of locations at offset 0 of an open file: a longer
\* text already there keeps its tail, and the file is no JSON document
WriteAtStart(file, locations) ==
    IF FileSize(file) <= JsonSize(locations)
    THEN Json(locations)
    ELSE [kind |-> "partial", data |-> file.data]

\* where an open file is after os.rename(from, to), or after
\* os.remove(from) when to is "unlinked"
Renamed(h, from, to) == IF h = from THEN to ELSE IF h = to THEN "unlinked" ELSE h

InitConc ==
    /\ fs = EmptyFs
    /\ phase = [p \in Procs |-> "idle"]
    /\ call = [p \in Procs |-> NoCall]
    /\ res = [p \in Procs |-> NoRes]

\* the calls after a rename or a remove: the open files have moved
Rehandled(from, to) ==
    [q \in Procs |-> IF call[q].op = "none" THEN call[q]
                     ELSE [call[q] EXCEPT !.handle = Renamed(@, from, to)]]

\* caller p is at pc and goes to next, with result r
ConcStep(p, pc, next, r) ==
    /\ phase[p] = pc
    /\ phase' = [phase EXCEPT ![p] = next]
    /\ res' = [res EXCEPT ![p] = r]

ConcResult(value, log) == [op |-> "register", value |-> value, saved |-> value, log |-> log]

\* an exception leaves save_locations (lines 50-53) and register_location:
\* the call returns no value
ConcRaise(p, pc) ==
    /\ ConcStep(p, pc, "raised", ConcResult(FALSE, "raised"))
    /\ UNCHANGED <<fs, call>>

ConcInvoke ==
    \E p \in Procs, c \in ConcCalls :
        /\ ConcStep(p, "idle", "called", NoRes)
        /\ call' = [call EXCEPT ![p] =
                        [op |-> "register", name |-> c.name, galaxy |-> c.galaxy,
                         address |-> c.address, description |-> c.description,
                         loaded |-> <<>>, locations |-> <<>>, handle |-> "none"]]
        /\ UNCHANGED fs

\* lines 133-144: load, the duplicate test, and the new entry in the dict
ConcLoadCheck ==
    \E p \in Procs :
        LET locations == load_locations(fs)
            c == call[p]
        IN phase[p] = "called" /\
           IF NameTaken(locations, c.name) \/ PairTaken(locations, c.galaxy, c.address)
           THEN /\ ConcStep(p, "called", "returned", ConcResult(FALSE, "duplicate"))
                /\ UNCHANGED <<fs, call>>
           ELSE /\ ConcStep(p, "called", "save: open", NoRes)
                /\ call' = [call EXCEPT ![p].loaded = locations,
                                        ![p].locations =
                                            DictSet(locations,
                                                    [name |-> c.name, galaxy |-> c.galaxy,
                                                     address |-> c.address, num_returns |-> 0,
                                                     description |-> c.description])]
                /\ UNCHANGED fs

\* line 36: open(temp_file, 'w')
ConcOpenTemp ==
    \E p \in Procs :
        /\ ConcStep(p, "save: open", "save: dump", NoRes)
        /\ fs' = save_open_temp(fs)
        /\ call' = [call EXCEPT ![p].handle = "tmp"]

\* line 37: json.dump and the close; the text goes to the file that was
\* opened, wherever a rename of the other caller has put it
ConcDumpTemp ==
    \E p \in Procs :
        LET h == call[p].handle
        IN /\ ConcStep(p, "save: dump", "save: exists", NoRes)
           /\ fs' = IF h = "unlinked" THEN fs
                    ELSE [fs EXCEPT ![h] = WriteAtStart(fs[h], call[p].locations)]
           /\ call' = [call EXCEPT ![p].handle = "none"]

\* line 39: os.path.exists(filename)
ConcExistsTarget ==
    \E p \in Procs :
        /\ ConcStep(p, "save: exists", IF exists(fs.target) THEN "save: move" ELSE "save: rename", NoRes)
        /\ UNCHANGED <<fs, call>>

\* line 40: shutil.move(filename, backup_file); it raises when the other
\* caller has moved the file away since line 39
ConcMoveBackup ==
    \E p \in Procs :
        phase[p] = "save: move" /\
        IF exists(fs.target)
        THEN /\ ConcStep(p, "save: move", "save: rename", NoRes)
             /\ fs' = save_move_backup(fs)
             /\ call' = Rehandled("target", "bak")
        ELSE ConcRaise(p, "save: move")

\* line 43: os.rename(temp_file, filename); it raises when the other caller
\* has renamed the temp file away
ConcRenameTemp ==
    \E p \in Procs :
        phase[p] = "save: rename" /\
        IF exists(fs.tmp)
        THEN /\ ConcStep(p, "save: rename", "save: exists bak", NoRes)
             /\ fs' = save_rename_temp(fs)
             /\ call' = Rehandled("tmp", "target")
        ELSE ConcRaise(p, "save: rename")

\* line 46: os.path.exists(backup_file); without a backup the save and the
\* register are done (lines 145-148)
ConcExistsBackup ==
    \E p \in Procs :
        /\ IF exists(fs.bak)
           THEN ConcStep(p, "save: exists bak", "save: remove", NoRes)
           ELSE ConcStep(p, "save: exists bak", "returned", ConcResult(TRUE, "registered"))
        /\ UNCHANGED <<fs, call>>

\* line 47: os.remove(backup_file); it raises when the other caller has
\* removed the backup since line 46
ConcRemoveBackup ==
    \E p \in Procs :
        phase[p] = "save: remove" /\
        IF exists(fs.bak)
        THEN /\ ConcStep(p, "save: remove", "returned", ConcResult(TRUE, "registered"))
             /\ fs' = save_remove_backup(fs)
             /\ call' = Rehandled("bak", "unlinked")
        ELSE ConcRaise(p, "save: remove")

NextConc ==
    \/ ConcInvoke \/ ConcLoadCheck \/ ConcOpenTemp \/ ConcDumpTemp
    \/ ConcExistsTarget \/ ConcMoveBackup \/ ConcRenameTemp
    \/ ConcExistsBackup \/ ConcRemoveBackup

SpecConc == InitConc /\ [][NextConc]_vars

\* both callers have returned success from register calls with distinct
\* names and distinct (galaxy, address) pairs, distinct also for the
\* duplicate test of register
C13_BothRegistered ==
    /\ \A p \in Procs : phase[p] = "returned" /\ res[p].value
    /\ lower(call[1].name) # lower(call[2].name)
    /\ lower(PairKey(call[1].galaxy, call[1].address))
           # lower(PairKey(call[2].galaxy, call[2].address))

\* C13: two register calls can lose an update, and only by interleaving:
\* when both calls have returned success and the record of one is missing
\* from the persisted registry, the other call had loaded the registry
\* before that record was in it.
C13_LostUpdateNeedsOverlap ==
    C13_BothRegistered =>
        \A p \in Procs :
            call[p].name \notin Keys(Registry)
                => call[p].name \notin Keys(call[Other(p)].loaded)

\* both calls returned success and the persisted registry holds only one of
\* the two records
C13_Witness ==
    /\ C13_BothRegistered
    /\ Len(Registry) = 1
    /\ Registry[1].name \in {call[1].name, call[2].name}

\* C14: a record's num_returns is 0 when the record is created, is never
\* negative, and while the record exists it changes only in a resolve call
\* that returns that record, where it grows by exactly 1 (so it never
\* decreases).
C14_CounterSteps ==
    [][LET before == load_locations(fs)
           after == load_locations(fs')
       IN \A j \in 1..Len(after) :
              /\ after[j].num_returns >= 0
              /\ IF after[j].name \in Keys(before)
                 THEN LET old == before[IndexOf(before, after[j].name)]
                      IN \/ after[j].num_returns = old.num_returns
                         \/ /\ Handles("resolve")
                            /\ after[j].num_returns = old.num_returns + 1
                            /\ res'.value = <<Data(after[j])>>
                 ELSE /\ Handles("register")
                      /\ after[j].num_returns = 0
      ]_vars

\* a modify succeeded on a record that had been resolved once: its counter
\* is still 1
C14_Witness ==
    /\ Returned("modify")
    /\ res.value = TRUE
    /\ res.saved
    /\ \E i \in 1..Len(Registry) :
           /\ Registry[i].name = lower(call.name)
           /\ Registry[i].num_returns = 1

(***************************************************************************)
(* find_location_in_string over registries of up to MaxEntries records     *)
(* whose names share words and fragments.                                  *)
(***************************************************************************)
MaxEntries == 3

ResolveEntry(name, galaxy) ==
    [name |-> name, galaxy |-> galaxy, address |-> AddrUpper, num_returns |-> 0,
     description |-> <<"x">>]

ResolveEntries ==
    { ResolveEntry(<<"a", "b">>, <<"1">>),
      ResolveEntry(<<"a", "b", " ", "c">>, <<"2">>),
      ResolveEntry(<<"a", "b", "d">>, <<"3">>),
      ResolveEntry(<<"a", "b", " ", "a", "b">>, <<"4">>),
      ResolveEntry(<<"c", " ", "d">>, <<"5">>) }

\* the dicts of at most n of these entries, in every insertion order
RECURSIVE ResolveDicts(_)
ResolveDicts(n) ==
    IF n = 0 THEN {<<>>}
    ELSE LET shorter == ResolveDicts(n - 1)
         IN shorter \cup {Append(x[1], x[2]) :
                             x \in {y \in shorter \X ResolveEntries :
                                        y[2].name \notin Keys(y[1])}}

ResolveTexts ==
    { Str(<<"a", "b">>), Str(<<"a", "b", "c">>), Str(<<"c">>),
      Str(<<"d", " ", "x">>), Str(<<"x">>), Str(<<"a", "b", "d">>) }

InitResolve ==
    /\ fs \in {[EmptyFs EXCEPT !.target = Json(d)] : d \in ResolveDicts(MaxEntries)}
    /\ phase = "idle"
    /\ call = NoCall
    /\ res = NoRes

ResolveInvoke ==
    /\ phase = "idle"
    /\ \E x \in ResolveTexts :
           /\ InRange(load_locations(find_location_in_string(fs, x, Threshold).fs))
           /\ call' = [op |-> "resolve", input |-> x]
    /\ phase' = "called"
    /\ UNCHANGED <<fs, res>>

NextResolve == ResolveInvoke \/ Resolve \/ Reply

SpecResolve == InitResolve /\ [][NextResolve]_vars

\* the names of a dict, in its order, whose lower-cased form contains the
\* lower-cased input
C15_Candidates(locations, input) ==
    SelectSeq([i \in 1..Len(locations) |-> locations[i].name],
              LAMBDA n : IsSubstring(lower(input), lower(n)))

\* the record the resolve step returns is the counted record of name
C15_Returns(locations, name, value) ==
    value = <<[Data(locations[IndexOf(locations, name)])
                  EXCEPT !.num_returns = @ + 1]>>

C16_Qualifying(locations, word) ==
    {locations[i].name : i \in {j \in 1..Len(locations) :
        \E k \in 1..Len(split(locations[j].name)) :
            ratio(word, split(locations[j].name)[k]) >= Threshold}}

\* C16: in the single-word pass a name counts once per input word, however
\* many of its words reach the threshold: the first input word with exactly
\* one qualifying name gives the match, and without such a word resolve
\* returns no match.
C16_SingleWordDistinct ==
    [][(/\ Handles("resolve")
        /\ res'.log \in {"single-word match", "no location"})
          => LET locations == load_locations(fs)
                 words == split(lower(call.input.s))
                 unique == {k \in 1..Len(words) :
                                Cardinality(C16_Qualifying(locations, words[k])) = 1}
             IN IF unique = {}
                THEN res'.value = <<>>
                ELSE LET k == CHOOSE w \in unique : \A v \in unique : w <= v
                     IN /\ res'.log = "single-word match"
                        /\ \E n \in C16_Qualifying(locations, words[k]) :
                               C15_Returns(locations, n, res'.value)
      ]_vars

\* C17: a load at any point of a save(new) over a store that holds a
\* non-empty collection old returns old or new, never the empty collection
\* or anything else. The state at each step of the save is what a load that
\* runs there reads.
C17_LoadSeesOldOrNew ==
    (/\ call.op = "save"
     /\ phase \in SavePhases \cup {"returned"}
     /\ call.old.kind = "json"
     /\ call.old.data # <<>>)
        => load_locations(fs) \in {call.old.data, call.locations}

(***************************************************************************)
(* Operations whose save may be interrupted: the process dies after any    *)
(* step of save_locations and a new process takes the next call.           *)
(***************************************************************************)
CrashNames == {<<"a", "b">>, <<"c", " ", "d">>}

\* save_locations cut after its first k steps
SavePrefix(f, locations, k) ==
    LET opened == save_open_temp(f)
        dumped == save_dump_temp(opened, locations)
        moved == save_move_backup(dumped)
        renamed == save_rename_temp(moved)
    IN IF k = 0 THEN f
       ELSE IF k = 1 THEN opened
       ELSE IF k = 2 THEN dumped
       ELSE IF k = 3 THEN moved
       ELSE renamed

\* what the pending call does when it runs to its end
CrashOutcome ==
    IF call.op = "register"
    THEN register_location(fs, call.name, call.galaxy, call.address, call.description)
    ELSE IF call.op = "modify"
    THEN modify_location(fs, call.name, call.old_galaxy, call.old_address,
                         call.new_galaxy, call.new_address, call.new_description)
    ELSE find_location_in_string(fs, call.input, Threshold)

CrashInvoke ==
    /\ phase = "idle"
    /\ phase' = "called"
    /\ UNCHANGED <<fs, res>>
    /\ \/ \E n \in CrashNames, g \in Galaxies :
              call' = [op |-> "register", name |-> n, galaxy |-> g,
                       address |-> AddrUpper, description |-> <<"x">>]
       \/ \E n \in CrashNames, og \in Galaxies, ng \in Optional(Galaxies) :
              call' = [op |-> "modify", name |-> n, old_galaxy |-> og,
                       old_address |-> AddrUpper, new_galaxy |-> ng,
                       new_address |-> None, new_description |-> None]
       \/ \E x \in {Str(<<"a", "b">>), Str(<<"x">>)} :
              /\ InRange(load_locations(find_location_in_string(fs, x, Threshold).fs))
              /\ call' = [op |-> "resolve", input |-> x]

\* the handler has reached save_locations and the process dies after k of
\* its steps: no result, the next call finds the files as they are
Interrupted ==
    /\ phase = "called"
    /\ CrashOutcome.saved
    /\ \E k \in 0..4 :
           fs' = SavePrefix(fs, load_locations(CrashOutcome.fs), k)
    /\ phase' = "idle"
    /\ call' = NoCall
    /\ res' = NoRes

NextCrash == CrashInvoke \/ Register \/ Modify \/ Resolve \/ Interrupted \/ Reply

SpecCrash == Init /\ [][NextCrash]_vars

\* the names of the records a person can get back from the target file or
\* the backup file
C18_Recoverable(f) ==
    Keys(load_locations(f))
        \cup (IF f.bak.kind = "json" THEN Keys(f.bak.data) ELSE {})

\* C18: no operation here removes a record, so a record that is recoverable
\* from the target or the backup stays recoverable, whatever save was
\* interrupted before; and an operation that runs while records are
\* recoverable does not start from an empty collection.
C18_RecordsStayRecoverable ==
    [][/\ C18_Recoverable(fs) \subseteq C18_Recoverable(fs')
       /\ (phase = "called" /\ C18_Recoverable(fs) # {})
              => load_locations(fs) # <<>>
      ]_vars

====
